---- MODULE Spec2Model ----
(***************************************************************************)
(* Model of source/systemUtils.py (NVDA): the six system utility functions *)
(* as one calling thread stepping through the statements of the function   *)
(* it was called with, against the operating system objects they touch     *)
(* (process table, handle table, thread message queue) and the external    *)
(* collaborators (globalVars, config, shellapi, WMI).                      *)
(***************************************************************************)
EXTENDS Integers, Sequences, FiniteSets, TLC

\* ---------------------------------------------------------------- bounds
MaxNameLen == 3
MaxRows == 2
MaxMsgs == 2

\* ------------------------------------------------------ program constants
TokenUIAccess == 26
GracefulWaitMs == 4000
ForceWaitMs == 2000
ForceExitCode == 1
WAIT_OBJECT_0 == 0
MsgWaitMessages == 1
INFINITE == -1
PM_REMOVE == 1
WAIT_TIMEOUT == 258
WAIT_FAILED == -1
STILL_ACTIVE == 259

\* ------------------------------------------------------------ input sets
Windows == {1, 2}
PIDs == {11, 12}
WindowPid == (1 :> 11) @@ (2 :> 12)
ExitCodes == {0, 7}
ArgPaths == {"argsCfgA", "argsCfgB"}
NoAttr == "<no configPath attribute>"
DefaultPaths == {"", "defaultCfg"}
BS == "\\"
Alphabet == {BS, "a"}
Names == UNION {[1..n -> Alphabet] : n \in 0..MaxNameLen}
Row == [ProcessId : PIDs]
RowSeqs == UNION {[1..n -> Row] : n \in 0..MaxRows}
QueryHead == "SELECT ProcessId FROM Win32_Process WHERE ExecutablePath = '"
QueryTail == "'"

VARIABLES
  pc, fn, outcome, exc, result, log,
  appArgsConfigPath, userDefaultConfigPath,
  path, configQueried, configInit, shellOpened,
  token, val,
  wait, handleAlreadyElevated, lpVerb, fMask, hProcess, dispatched,
  window, processID, h, res,
  name, escapedName, wmiQuery, queryOk, rows, count, i, out,
  procState, procExit, honoursQuit, quitPosted, termCode,
  childState, childExit,
  handleTarget, openHandles, msgQueue, posted

thread == <<pc, fn, outcome, exc, result>>
ocEnv == <<appArgsConfigPath, userDefaultConfigPath>>
ocVars == <<ocEnv, path, configQueried, configInit, shellOpened>>
huVars == <<token, val>>
eeVars == <<wait, handleAlreadyElevated, lpVerb, fMask, hProcess, dispatched>>
tnVars == <<window, processID, h, res>>
gpVars == <<name, escapedName, wmiQuery, queryOk, rows, count, i, out>>
procVars == <<procState, procExit, honoursQuit, quitPosted, termCode>>
childVars == <<childState, childExit>>
handleVars == <<handleTarget, openHandles>>
msgVars == <<msgQueue, posted>>
vars == <<thread, log, ocVars, huVars, eeVars, tnVars, gpVars, procVars,
          childVars, handleVars, msgVars>>

\* ------------------------------------------------------------- helpers
NoResult == [kind |-> "unset", val |-> 0]
None == [kind |-> "None", val |-> 0]
IntResult(v) == [kind |-> "int", val |-> v]
BoolResult(v) == [kind |-> "bool", val |-> IF v # 0 THEN 1 ELSE 0]
TupleResult(n) == [kind |-> "tuple", val |-> n]
NoExc == [type |-> "none", msg |-> ""]
Ev(op, a, x, r) == [op |-> op, a |-> a, x |-> x, r |-> r]
Logged(e) == log' = Append(log, e)

NewHandle == Len(handleTarget) + 1
ProcessObj(p) == [kind |-> "process", id |-> p]
ChildObj == [kind |-> "child", id |-> 0]
TokenObj == [kind |-> "token", id |-> 0]
Valid(hh) == hh \in openHandles
Signaled(hh) ==
  /\ Valid(hh)
  /\ \/ handleTarget[hh].kind = "process" /\ procState[handleTarget[hh].id] = "exited"
     \/ handleTarget[hh].kind = "child" /\ childState = "exited"

\* winKernel.openProcess / ShellExecuteEx / OpenProcessToken allocate a handle
OpenHandle(obj) ==
  /\ handleTarget' = Append(handleTarget, obj)
  /\ openHandles' = openHandles \cup {NewHandle}

\* winKernel.closeHandle / kernel32.CloseHandle: releases an open handle and
\* reports failure (0) for anything else, without raising
CloseHandle(hh) ==
  /\ openHandles' = openHandles \ {hh}
  /\ UNCHANGED handleTarget
  /\ Logged(Ev("CloseHandle", hh, 0, IF Valid(hh) THEN 1 ELSE 0))

Return(v) == outcome' = "return" /\ result' = v /\ exc' = NoExc
Raise(t, m) == outcome' = "raise" /\ exc' = [type |-> t, msg |-> m] /\ UNCHANGED result

Init ==
  /\ pc = "idle" /\ fn = "none" /\ outcome = "none" /\ exc = NoExc
  /\ result = NoResult /\ log = <<>>
  /\ appArgsConfigPath = NoAttr /\ userDefaultConfigPath = ""
  /\ path = "" /\ configQueried = FALSE /\ configInit = "" /\ shellOpened = <<>>
  /\ token = 0 /\ val = 0
  /\ wait = FALSE /\ handleAlreadyElevated = FALSE /\ lpVerb = "" /\ fMask = "0"
  /\ hProcess = 0 /\ dispatched = 0
  /\ window = 0 /\ processID = 0 /\ h = 0 /\ res = 0
  /\ name = <<>> /\ escapedName = <<>> /\ wmiQuery = <<>> /\ queryOk = TRUE
  /\ rows = <<>> /\ count = 0 /\ i = 0 /\ out = <<>>
  /\ procState \in [PIDs -> {"running", "exited"}]
  /\ procExit = [p \in PIDs |-> 0]
  /\ honoursQuit \in [PIDs -> BOOLEAN]
  /\ quitPosted = {} /\ termCode = [p \in PIDs |-> -1]
  /\ childState = "none" /\ childExit = 0
  /\ handleTarget = <<>> /\ openHandles = {}
  /\ msgQueue = 0 /\ posted = 0

\* ------------------------------------------- openUserConfigurationDirectory
Call_openUserConfigurationDirectory ==
  /\ pc = "idle"
  /\ \E a \in ArgPaths \cup {NoAttr}, d \in DefaultPaths :
       appArgsConfigPath' = a /\ userDefaultConfigPath' = d
  /\ pc' = "oc_getPath" /\ fn' = "openUserConfigurationDirectory"
  /\ UNCHANGED <<outcome, exc, result, log, path, configQueried, configInit,
                 shellOpened, huVars, eeVars, tnVars,
                 gpVars, procVars, childVars, handleVars, msgVars>>

\* try: path = globalVars.appArgs.configPath / except AttributeError
oc_getPath ==
  /\ pc = "oc_getPath"
  /\ IF appArgsConfigPath # NoAttr
       THEN path' = appArgsConfigPath /\ pc' = "oc_shell"
       ELSE path' = path /\ pc' = "oc_default"
  /\ UNCHANGED <<fn, outcome, exc, result, log, ocEnv, configQueried, configInit,
                 shellOpened, huVars, eeVars, tnVars, gpVars, procVars,
                 childVars, handleVars, msgVars>>

\* path = config.getUserDefaultConfigPath()
oc_default ==
  /\ pc = "oc_default"
  /\ path' = userDefaultConfigPath
  /\ configQueried' = TRUE
  /\ pc' = "oc_check"
  /\ UNCHANGED <<fn, outcome, exc, result, log, ocEnv, configInit, shellOpened,
                 huVars, eeVars, tnVars, gpVars, procVars, childVars,
                 handleVars, msgVars>>

oc_check_noRaise ==
  /\ pc = "oc_check"
  /\ configInit' = path /\ pc' = "oc_shell"
  /\ UNCHANGED <<fn, outcome, exc, result, log, ocEnv, path, configQueried,
                 shellOpened, huVars, eeVars, tnVars, gpVars, procVars,
                 childVars, handleVars, msgVars>>

\* if not path: raise ValueError(...) ; config.initConfigPath(path)
oc_check ==
  /\ pc = "oc_check"
  /\ IF path = ""
       THEN /\ Raise("ValueError", "no user default config path")
            /\ pc' = "done"
            /\ UNCHANGED configInit
       ELSE /\ configInit' = path
            /\ pc' = "oc_shell"
            /\ UNCHANGED <<outcome, exc, result>>
  /\ UNCHANGED <<fn, log, ocEnv, path, configQueried, shellOpened, huVars, eeVars,
                 tnVars, gpVars, procVars, childVars, handleVars, msgVars>>

\* shellapi.ShellExecute(0, None, path, None, None, winUser.SW_SHOWNORMAL)
oc_shell ==
  /\ pc = "oc_shell"
  /\ shellOpened' = Append(shellOpened, path)
  /\ Return(None) /\ pc' = "done"
  /\ UNCHANGED <<fn, log, ocEnv, path, configQueried, configInit, huVars, eeVars,
                 tnVars, gpVars, procVars, childVars, handleVars, msgVars>>

\* ------------------------------------------------------------- hasUiAccess
Call_hasUiAccess ==
  /\ pc = "idle"
  /\ pc' = "hu_open" /\ fn' = "hasUiAccess"
  /\ UNCHANGED <<outcome, exc, result, log, ocVars, huVars, eeVars, tnVars,
                 gpVars, procVars, childVars, handleVars, msgVars>>

\* advapi32.OpenProcessToken(GetCurrentProcess(), MAXIMUM_ALLOWED, byref(token));
\* the BOOL it returns is discarded
hu_open ==
  /\ pc = "hu_open"
  /\ \/ /\ OpenHandle(TokenObj) /\ token' = NewHandle
        /\ Logged(Ev("OpenProcessToken", 0, 0, 1))
     \/ /\ UNCHANGED handleVars /\ token' = 0
        /\ Logged(Ev("OpenProcessToken", 0, 0, 0))
  /\ pc' = "hu_query"
  /\ UNCHANGED <<fn, outcome, exc, result, val, ocVars, eeVars, tnVars, gpVars,
                 procVars, childVars, msgVars>>

\* val = DWORD(); GetTokenInformation(token, TokenUIAccess, byref(val), ...);
\* return bool(val.value)
hu_query ==
  /\ pc = "hu_query"
  /\ \E flag \in {0, 1}, ok \in BOOLEAN :
       LET got == Valid(token) /\ ok IN
       /\ val' = IF got THEN flag ELSE 0
       /\ Logged(Ev("GetTokenInformation", token, TokenUIAccess, IF got THEN 1 ELSE 0))
  /\ Return(BoolResult(val'))
  /\ pc' = "hu_finally"
  /\ UNCHANGED <<fn, token, ocVars, eeVars, tnVars, gpVars, procVars,
                 childVars, handleVars, msgVars>>

\* finally: kernel32.CloseHandle(token)
hu_finally ==
  /\ pc = "hu_finally"
  /\ CloseHandle(token)
  /\ pc' = "done"
  /\ UNCHANGED <<fn, outcome, exc, result, huVars, ocVars, eeVars, tnVars,
                 gpVars, procVars, childVars, msgVars>>

\* ------------------------------------------------------------ execElevated
Call_execElevated ==
  /\ pc = "idle"
  /\ \E w \in BOOLEAN, e \in BOOLEAN :
       wait' = w /\ handleAlreadyElevated' = e
  /\ pc' = "ee_verb" /\ fn' = "execElevated"
  /\ UNCHANGED <<outcome, exc, result, log, lpVerb, fMask, hProcess, dispatched,
                 ocVars, huVars, tnVars, gpVars, procVars, childVars,
                 handleVars, msgVars>>

\* if not handleAlreadyElevated or not IsUserAnAdmin(): sei.lpVerb = "runas"
\* if wait: sei.fMask = shellapi.SEE_MASK_NOCLOSEPROCESS
ee_verb ==
  /\ pc = "ee_verb"
  /\ \E admin \in BOOLEAN :
       lpVerb' = IF ~handleAlreadyElevated \/ ~admin THEN "runas" ELSE ""
  /\ fMask' = IF wait THEN "SEE_MASK_NOCLOSEPROCESS" ELSE "0"
  /\ pc' = "ee_shell"
  /\ UNCHANGED <<fn, outcome, exc, result, log, wait, handleAlreadyElevated,
                 hProcess, dispatched, ocVars, huVars, tnVars, gpVars,
                 procVars, childVars, handleVars, msgVars>>

\* shellapi.ShellExecuteEx(sei): raises on failure; on success the child runs
\* and, with SEE_MASK_NOCLOSEPROCESS, sei.hProcess is a handle to it
ee_shell ==
  /\ pc = "ee_shell"
  /\ \/ /\ Raise("OSError", "ShellExecuteEx")
        /\ Logged(Ev("ShellExecuteEx", 0, 0, 0))
        /\ pc' = "done"
        /\ UNCHANGED <<hProcess, childVars, handleVars>>
     \/ /\ childState' = "running" /\ UNCHANGED childExit
        /\ Logged(Ev("ShellExecuteEx", 0, 0, 1))
        /\ IF fMask = "SEE_MASK_NOCLOSEPROCESS"
             THEN OpenHandle(ChildObj) /\ hProcess' = NewHandle
             ELSE UNCHANGED handleVars /\ hProcess' = 0
        /\ IF wait
             THEN pc' = "ee_msgwait" /\ UNCHANGED <<outcome, exc, result>>
             ELSE pc' = "done" /\ Return(None)
  /\ UNCHANGED <<fn, wait, handleAlreadyElevated, lpVerb, fMask, dispatched,
                 ocVars, huVars, tnVars, gpVars, procVars, msgVars>>

\* user32.MsgWaitForMultipleObjects(1, byref(h), False, -1, 255): blocks until
\* the handle is signaled (0), input is in the queue (1) or the wait fails (-1)
MsgWaitResults(hh) ==
  {r \in {WAIT_OBJECT_0, MsgWaitMessages, WAIT_FAILED} :
     \/ r = WAIT_OBJECT_0 /\ Signaled(hh)
     \/ r = MsgWaitMessages /\ msgQueue > 0
     \/ r = WAIT_FAILED}

\* while MsgWaitForMultipleObjects(...) == 1:
ee_msgwait ==
  /\ pc = "ee_msgwait"
  /\ \E r \in MsgWaitResults(hProcess) :
       /\ Logged(Ev("MsgWaitForMultipleObjects", hProcess, INFINITE, r))
       /\ pc' = IF r = MsgWaitMessages THEN "ee_peek" ELSE "ee_exitcode"
  /\ UNCHANGED <<fn, outcome, exc, result, eeVars, ocVars, huVars, tnVars,
                 gpVars, procVars, childVars, handleVars, msgVars>>

\* while user32.PeekMessageW(byref(msg), None, 0, 0, 1):
ee_peek ==
  /\ pc = "ee_peek"
  /\ IF msgQueue > 0
       THEN /\ msgQueue' = msgQueue - 1
            /\ Logged(Ev("PeekMessageW", 0, PM_REMOVE, 1))
            /\ pc' = "ee_dispatch"
       ELSE /\ msgQueue' = msgQueue
            /\ Logged(Ev("PeekMessageW", 0, PM_REMOVE, 0))
            /\ pc' = "ee_msgwait"
  /\ UNCHANGED <<fn, outcome, exc, result, eeVars, ocVars, huVars, tnVars,
                 gpVars, procVars, childVars, handleVars, posted>>

\* user32.TranslateMessage(byref(msg)); user32.DispatchMessageW(byref(msg))
ee_dispatch ==
  /\ pc = "ee_dispatch"
  /\ dispatched' = dispatched + 1
  /\ pc' = "ee_peek"
  /\ UNCHANGED <<fn, outcome, exc, result, log, wait, handleAlreadyElevated,
                 lpVerb, fMask, hProcess, ocVars, huVars, tnVars, gpVars,
                 procVars, childVars, handleVars, msgVars>>

\* winKernel.GetExitCodeProcess: the exit code, STILL_ACTIVE while it runs
GetExitCodeProcess(hh) ==
  IF Signaled(hh) THEN childExit ELSE STILL_ACTIVE

\* return winKernel.GetExitCodeProcess(sei.hProcess)
ee_exitcode ==
  /\ pc = "ee_exitcode"
  /\ Return(IntResult(GetExitCodeProcess(hProcess)))
  /\ Logged(Ev("GetExitCodeProcess", hProcess, 0, GetExitCodeProcess(hProcess)))
  /\ pc' = "ee_finally"
  /\ UNCHANGED <<fn, eeVars, ocVars, huVars, tnVars, gpVars, procVars,
                 childVars, handleVars, msgVars>>

\* finally: winKernel.closeHandle(sei.hProcess)
ee_finally ==
  /\ pc = "ee_finally"
  /\ CloseHandle(hProcess)
  /\ pc' = "done"
  /\ UNCHANGED <<fn, outcome, exc, result, eeVars, ocVars, huVars, tnVars,
                 gpVars, procVars, childVars, msgVars>>

\* the launched child runs to completion with some exit code
ChildExits ==
  /\ childState = "running"
  /\ \E c \in ExitCodes : childExit' = c
  /\ childState' = "exited"
  /\ UNCHANGED <<thread, log, ocVars, huVars, eeVars, tnVars, gpVars, procVars,
                 handleVars, msgVars>>

\* a window message arrives in the calling thread's queue
PostMsg ==
  /\ fn = "execElevated" /\ pc # "done"
  /\ posted < MaxMsgs
  /\ posted' = posted + 1 /\ msgQueue' = msgQueue + 1
  /\ UNCHANGED <<thread, log, ocVars, huVars, eeVars, tnVars, gpVars, procVars,
                 childVars, handleVars>>

\* --------------------------------------------------- terminateRunningNVDA
Call_terminateRunningNVDA ==
  /\ pc = "idle"
  /\ \E w \in Windows : window' = w
  /\ pc' = "tn_getpid" /\ fn' = "terminateRunningNVDA"
  /\ UNCHANGED <<outcome, exc, result, log, processID, h, res, ocVars, huVars,
                 eeVars, gpVars, procVars, childVars, handleVars, msgVars>>

\* processID, threadID = winUser.getWindowThreadProcessID(window)
tn_getpid ==
  /\ pc = "tn_getpid"
  /\ processID' = WindowPid[window]
  /\ pc' = "tn_post"
  /\ UNCHANGED <<fn, outcome, exc, result, log, window, h, res, ocVars, huVars,
                 eeVars, gpVars, procVars, childVars, handleVars, msgVars>>

\* winUser.PostMessage(window, winUser.WM_QUIT, 0, 0)
tn_post ==
  /\ pc = "tn_post"
  /\ quitPosted' = quitPosted \cup {WindowPid[window]}
  /\ Logged(Ev("PostMessage", window, 0, 1))
  /\ pc' = "tn_open"
  /\ UNCHANGED <<fn, outcome, exc, result, tnVars, ocVars, huVars, eeVars,
                 gpVars, procState, procExit, honoursQuit, termCode, childVars,
                 handleVars, msgVars>>

\* winKernel.openProcess(access, False, processID): a handle to a process that
\* exists, else 0
openProcess(opname, p) ==
  IF procState[p] = "running"
    THEN /\ OpenHandle(ProcessObj(p)) /\ h' = NewHandle
         /\ Logged(Ev(opname, p, 0, NewHandle))
    ELSE /\ UNCHANGED handleVars /\ h' = 0
         /\ Logged(Ev(opname, p, 0, 0))

\* h = winKernel.openProcess(winKernel.SYNCHRONIZE, False, processID)
tn_open ==
  /\ pc = "tn_open"
  /\ openProcess("openProcess(SYNCHRONIZE)", processID)
  /\ pc' = "tn_check_h"
  /\ UNCHANGED <<fn, outcome, exc, result, window, processID, res, ocVars,
                 huVars, eeVars, gpVars, procVars, childVars, msgVars>>

tn_check_h_inTry ==
  /\ pc = "tn_check_h"
  /\ IF h = 0
       THEN Return(None) /\ pc' = "tn_finally"
       ELSE pc' = "tn_wait" /\ UNCHANGED <<outcome, exc, result>>
  /\ UNCHANGED <<fn, log, tnVars, ocVars, huVars, eeVars, gpVars, procVars,
                 childVars, handleVars, msgVars>>

\* if not h: return
tn_check_h ==
  /\ pc = "tn_check_h"
  /\ IF h = 0
       THEN Return(None) /\ pc' = "done"
       ELSE pc' = "tn_wait" /\ UNCHANGED <<outcome, exc, result>>
  /\ UNCHANGED <<fn, log, tnVars, ocVars, huVars, eeVars, gpVars, procVars,
                 childVars, handleVars, msgVars>>

\* winKernel.waitForSingleObject(handle, timeout) on an open handle: 0 once the
\* process has exited, the timeout value when the time has run out
WaitResult(hh) == IF Signaled(hh) THEN WAIT_OBJECT_0 ELSE WAIT_TIMEOUT

\* res = winKernel.waitForSingleObject(h, 4000)
tn_wait ==
  /\ pc = "tn_wait"
  /\ IF Valid(h)
       THEN /\ res' = WaitResult(h)
            /\ pc' = "tn_check_res"
            /\ UNCHANGED <<outcome, exc, result>>
       ELSE /\ res' = WAIT_FAILED
            /\ Raise("OSError", "WaitForSingleObject")
            /\ pc' = "tn_finally"
  /\ Logged(Ev("waitForSingleObject", h, GracefulWaitMs, res'))
  /\ UNCHANGED <<fn, window, processID, h, ocVars, huVars, eeVars, gpVars,
                 procVars, childVars, handleVars, msgVars>>

tn_check_res_neverForce ==
  /\ pc = "tn_check_res"
  /\ Return(None)
  /\ pc' = "tn_finally"
  /\ UNCHANGED <<fn, log, tnVars, ocVars, huVars, eeVars, gpVars, procVars,
                 childVars, handleVars, msgVars>>

\* if res == 0: return
tn_check_res ==
  /\ pc = "tn_check_res"
  /\ IF res = 0
       THEN Return(None)
       ELSE UNCHANGED <<outcome, exc, result>>
  /\ pc' = "tn_finally"
  /\ UNCHANGED <<fn, log, tnVars, ocVars, huVars, eeVars, gpVars, procVars,
                 childVars, handleVars, msgVars>>

\* finally: winKernel.closeHandle(h)
tn_finally ==
  /\ pc = "tn_finally"
  /\ CloseHandle(h)
  /\ pc' = IF outcome = "none" THEN "tn_force" ELSE "done"
  /\ UNCHANGED <<fn, outcome, exc, result, tnVars, ocVars, huVars, eeVars,
                 gpVars, procVars, childVars, msgVars>>

\* forceTerminateProcess(processID)
tn_force ==
  /\ pc = "tn_force"
  /\ Logged(Ev("forceTerminateProcess", processID, 0, 0))
  /\ pc' = "ft_open"
  /\ UNCHANGED <<fn, outcome, exc, result, tnVars, ocVars, huVars, eeVars,
                 gpVars, procVars, childVars, handleVars, msgVars>>

\* --------------------------------------------------- forceTerminateProcess
Call_forceTerminateProcess ==
  /\ pc = "idle"
  /\ \E p \in PIDs : processID' = p
  /\ Logged(Ev("forceTerminateProcess", processID', 0, 0))
  /\ pc' = "ft_open" /\ fn' = "forceTerminateProcess"
  /\ UNCHANGED <<outcome, exc, result, window, h, res, ocVars, huVars, eeVars,
                 gpVars, procVars, childVars, handleVars, msgVars>>

\* h = winKernel.openProcess(PROCESS_TERMINATE | SYNCHRONIZE, False, processID)
ft_open ==
  /\ pc = "ft_open"
  /\ openProcess("openProcess(PROCESS_TERMINATE|SYNCHRONIZE)", processID)
  /\ pc' = "ft_check"
  /\ UNCHANGED <<fn, outcome, exc, result, window, processID, res, ocVars,
                 huVars, eeVars, gpVars, procVars, childVars, msgVars>>

\* if h == 0: ctypes.WinError()   -- the error object is built and dropped
ft_check ==
  /\ pc = "ft_check"
  /\ IF h = 0
       THEN Logged(Ev("ctypes.WinError", 0, 0, 0))
       ELSE UNCHANGED log
  /\ pc' = "ft_terminate"
  /\ UNCHANGED <<fn, outcome, exc, result, tnVars, ocVars, huVars, eeVars,
                 gpVars, procVars, childVars, handleVars, msgVars>>

\* kernel32.TerminateProcess(handle, exitCode): asks the OS to end the process
TerminateProcess(hh, code) ==
  IF Valid(hh) /\ handleTarget[hh].kind = "process"
       /\ procState[handleTarget[hh].id] = "running"
    THEN /\ termCode' = [termCode EXCEPT ![handleTarget[hh].id] = code]
         /\ Logged(Ev("TerminateProcess", hh, code, 1))
    ELSE /\ UNCHANGED termCode
         /\ Logged(Ev("TerminateProcess", hh, code, 0))

ft_terminate_skipped ==
  /\ pc = "ft_terminate"
  /\ UNCHANGED <<termCode, log>>
  /\ pc' = "ft_wait"
  /\ UNCHANGED <<fn, outcome, exc, result, tnVars, ocVars, huVars, eeVars,
                 gpVars, procState, procExit, honoursQuit, quitPosted,
                 childVars, handleVars, msgVars>>

\* winKernel.TerminateProcess(h, 1)
ft_terminate ==
  /\ pc = "ft_terminate"
  /\ TerminateProcess(h, ForceExitCode)
  /\ pc' = "ft_wait"
  /\ UNCHANGED <<fn, outcome, exc, result, tnVars, ocVars, huVars, eeVars,
                 gpVars, procState, procExit, honoursQuit, quitPosted,
                 childVars, handleVars, msgVars>>

\* winKernel.waitForSingleObject(h, 2000); the result is dropped.  On a handle
\* that is not open the wait fails: the wrapper reports it by raising or by
\* returning the failure value
ft_wait ==
  /\ pc = "ft_wait"
  /\ IF Valid(h)
       THEN /\ res' = WaitResult(h)
            /\ UNCHANGED <<outcome, exc, result>>
       ELSE /\ res' = WAIT_FAILED
            /\ \/ Raise("OSError", "WaitForSingleObject")
               \/ UNCHANGED <<outcome, exc, result>>
  /\ Logged(Ev("waitForSingleObject", h, ForceWaitMs, res'))
  /\ pc' = "ft_finally"
  /\ UNCHANGED <<fn, window, processID, h, ocVars, huVars, eeVars, gpVars,
                 procVars, childVars, handleVars, msgVars>>

\* finally: winKernel.closeHandle(h)
ft_finally ==
  /\ pc = "ft_finally"
  /\ CloseHandle(h)
  /\ IF outcome = "raise"
       THEN UNCHANGED <<outcome, exc, result>>
       ELSE Return(None)
  /\ pc' = "done"
  /\ UNCHANGED <<fn, tnVars, ocVars, huVars, eeVars, gpVars, procVars,
                 childVars, msgVars>>

\* a process that honours WM_QUIT exits once the message has been posted
ProcessQuits ==
  \E p \in PIDs :
    /\ procState[p] = "running" /\ p \in quitPosted /\ honoursQuit[p]
    /\ \E c \in ExitCodes : procExit' = [procExit EXCEPT ![p] = c]
    /\ procState' = [procState EXCEPT ![p] = "exited"]
    /\ UNCHANGED <<thread, log, ocVars, huVars, eeVars, tnVars, gpVars,
                   honoursQuit, quitPosted, termCode, childVars, handleVars,
                   msgVars>>

\* the OS ends a process whose termination was requested
ProcessKilled ==
  \E p \in PIDs :
    /\ procState[p] = "running" /\ termCode[p] # -1
    /\ procExit' = [procExit EXCEPT ![p] = termCode[p]]
    /\ procState' = [procState EXCEPT ![p] = "exited"]
    /\ UNCHANGED <<thread, log, ocVars, huVars, eeVars, tnVars, gpVars,
                   honoursQuit, quitPosted, termCode, childVars, handleVars,
                   msgVars>>

\* ---------------------------------------------- getRunningProcessInstances
Call_getRunningProcessInstances ==
  /\ pc = "idle"
  /\ \E n \in Names : name' = n
  /\ pc' = "gp_escape" /\ fn' = "getRunningProcessInstances"
  /\ UNCHANGED <<outcome, exc, result, log, escapedName, wmiQuery, queryOk,
                 rows, count, i, out, ocVars, huVars, eeVars, tnVars, procVars,
                 childVars, handleVars, msgVars>>

\* str.replace("\\", r"\\"): every backslash becomes two
RECURSIVE replace(_)
replace(s) ==
  IF s = <<>> THEN <<>>
  ELSE IF Head(s) = BS THEN <<BS, BS>> \o replace(Tail(s))
       ELSE <<Head(s)>> \o replace(Tail(s))

replaceFirstOnly(s) ==
  IF \E k \in 1..Len(s) : s[k] = BS
    THEN LET k == CHOOSE k \in 1..Len(s) : s[k] = BS /\ \A j \in 1..(k-1) : s[j] # BS
         IN SubSeq(s, 1, k) \o <<BS>> \o SubSeq(s, k + 1, Len(s))
    ELSE s

escapeName(s) == replace(s)

\* escapedName = name.replace("\\", r"\\")
gp_escape ==
  /\ pc = "gp_escape"
  /\ escapedName' = escapeName(name)
  /\ pc' = "gp_query"
  /\ UNCHANGED <<fn, outcome, exc, result, log, name, wmiQuery, queryOk, rows,
                 count, i, out, ocVars, huVars, eeVars, tnVars, procVars,
                 childVars, handleVars, msgVars>>

\* processes = wmi.ExecQuery(f"SELECT ... ExecutablePath = '{escapedName}'"):
\* WMI answers lazily with some rows, or with a result that fails on use
gp_query ==
  /\ pc = "gp_query"
  /\ wmiQuery' = <<QueryHead>> \o escapedName \o <<QueryTail>>
  /\ \/ queryOk' = TRUE /\ \E rs \in RowSeqs : rows' = rs
     \/ queryOk' = FALSE /\ rows' = <<>>
  /\ pc' = "gp_count"
  /\ UNCHANGED <<fn, outcome, exc, result, log, name, escapedName, count, i,
                 out, ocVars, huVars, eeVars, tnVars, procVars, childVars,
                 handleVars, msgVars>>

\* count = processes.Count   (raises COMError for a failed query)
gp_count ==
  /\ pc = "gp_count"
  /\ IF queryOk
       THEN /\ count' = Len(rows) /\ pc' = "gp_iter"
            /\ UNCHANGED <<outcome, exc, result>>
       ELSE /\ Raise("COMError", "Count") /\ pc' = "done"
            /\ UNCHANGED count
  /\ UNCHANGED <<fn, log, name, escapedName, wmiQuery, queryOk, rows, i, out,
                 ocVars, huVars, eeVars, tnVars, procVars, childVars,
                 handleVars, msgVars>>

\* return tuple(processes.ItemIndex(i).Properties_['ProcessId'].Value
\*              for i in range(count))
gp_iter ==
  /\ pc = "gp_iter"
  /\ IF i < count
       THEN /\ out' = Append(out, rows[i + 1].ProcessId)
            /\ i' = i + 1
            /\ pc' = "gp_iter"
            /\ UNCHANGED <<outcome, exc, result>>
       ELSE /\ Return(TupleResult(Len(out)))
            /\ pc' = "done"
            /\ UNCHANGED <<i, out>>
  /\ UNCHANGED <<fn, log, name, escapedName, wmiQuery, queryOk, rows, count,
                 ocVars, huVars, eeVars, tnVars, procVars, childVars,
                 handleVars, msgVars>>

\* ------------------------------------------------------- specification
ThreadStep ==
  \/ Call_openUserConfigurationDirectory \/ oc_getPath \/ oc_default
  \/ oc_check \/ oc_shell
  \/ Call_hasUiAccess \/ hu_open \/ hu_query \/ hu_finally
  \/ Call_execElevated \/ ee_verb \/ ee_shell \/ ee_msgwait \/ ee_peek
  \/ ee_dispatch \/ ee_exitcode \/ ee_finally
  \/ Call_terminateRunningNVDA \/ tn_getpid \/ tn_post \/ tn_open
  \/ tn_check_h \/ tn_wait \/ tn_check_res \/ tn_finally \/ tn_force
  \/ Call_forceTerminateProcess \/ ft_open \/ ft_check \/ ft_terminate
  \/ ft_wait \/ ft_finally
  \/ Call_getRunningProcessInstances \/ gp_escape \/ gp_query \/ gp_count
  \/ gp_iter

Environment == ChildExits \/ PostMsg \/ ProcessQuits \/ ProcessKilled

Next == ThreadStep \/ Environment

Spec == Init /\ [][Next]_vars

\* The calling thread keeps running while a step is enabled (a blocked wait is
\* a disabled step), and the OS completes a termination it has accepted.
FairSpec == Spec /\ WF_vars(ThreadStep) /\ WF_vars(ProcessKilled)

\* ------------------------------------------------------------ properties
LogIdx == 1..Len(log)
HasOp(op) == \E k \in LogIdx : log[k].op = op
FtLabels == {"ft_check", "ft_terminate", "ft_wait", "ft_finally", "done"}
FtRan == HasOp("forceTerminateProcess") /\ pc \in FtLabels
FtOpenFailed == FtRan /\ h = 0
FtObtained == FtRan /\ h # 0
GracefulWait(k) == log[k].op = "waitForSingleObject" /\ log[k].x = 4000
ForceWait(k) == log[k].op = "waitForSingleObject" /\ log[k].x = 2000
SyncOpen(k) == log[k].op = "openProcess(SYNCHRONIZE)"
InTn == fn = "terminateRunningNVDA"
InEe == fn = "execElevated"
InGp == fn = "getRunningProcessInstances"
InOc == fn = "openUserConfigurationDirectory"
InHu == fn = "hasUiAccess"

\* C1: when openProcess returns 0, forceTerminateProcess raises an OS-level
\* error to its caller without calling TerminateProcess, without waiting and
\* with no handle left open.
C1_OpenFailureRaises ==
  FtOpenFailed =>
    /\ ~HasOp("TerminateProcess")
    /\ \A k \in LogIdx : ~ForceWait(k)
    /\ openHandles = {}
    /\ pc = "done" => outcome = "raise" /\ exc.type = "OSError"

\* C2: terminateRunningNVDA never invokes forceTerminateProcess once the
\* 4000 ms wait has reported the process exited; it invokes it only after that
\* wait has timed out and with the window's process ID; and for a process that
\* was opened and ignores the quit message it has invoked it by the time it
\* returns.
C2_ForceOnlyAfterTimeout ==
  InTn =>
    /\ (\E k \in LogIdx : GracefulWait(k) /\ log[k].r = 0)
         => ~HasOp("forceTerminateProcess") /\ pc \notin {"tn_force"} \cup (FtLabels \ {"done"})
    /\ \A k \in LogIdx : log[k].op = "forceTerminateProcess" =>
         /\ log[k].a = WindowPid[window]
         /\ \E j \in 1..(k - 1) : GracefulWait(j) /\ log[j].r = 258
    /\ ( /\ pc = "done"
         /\ ~honoursQuit[WindowPid[window]]
         /\ \E k \in LogIdx : SyncOpen(k) /\ log[k].r # 0 )
         => \E k \in LogIdx : /\ log[k].op = "forceTerminateProcess"
                              /\ log[k].a = WindowPid[window]

C2_Witness ==
  /\ InTn /\ pc = "done"
  /\ ~honoursQuit[WindowPid[window]]
  /\ \E k \in LogIdx : GracefulWait(k) /\ log[k].r = 258
  /\ HasOp("forceTerminateProcess")

\* C3: every handle that was opened is closed exactly once before the function
\* returns or raises, no handle is open after any exit, and no close is issued
\* for a handle that was not opened.
C3_HandlesClosedExactlyOnce ==
  /\ \A k \in LogIdx : log[k].op = "CloseHandle" => log[k].r = 1
  /\ pc = "done" =>
       /\ openHandles = {}
       /\ \A hh \in 1..Len(handleTarget) :
            Cardinality({k \in LogIdx : log[k].op = "CloseHandle" /\ log[k].a = hh}) = 1

\* C4: when opening the process token fails, hasUiAccess propagates an
\* OS-level error: it returns no boolean and does not query the token.
C4_TokenOpenFailurePropagates ==
  (InHu /\ \E k \in LogIdx : log[k].op = "OpenProcessToken" /\ log[k].r = 0) =>
    /\ pc \in {"hu_query", "done"}
    /\ ~HasOp("GetTokenInformation")
    /\ pc = "done" => outcome = "raise" /\ exc.type = "OSError" /\ result.kind # "bool"

\* C5: execElevated with wait=True, after a successful launch of a child that
\* exits with code c, returns c; with wait=False it returns None without
\* waiting on the child and without keeping a process handle.
C5_ReturnsExitCode ==
  (InEe /\ pc = "done" /\ childState # "none") =>
    IF wait
      THEN childState = "exited" =>
             outcome = "return" /\ result = IntResult(childExit)
      ELSE /\ outcome = "return" /\ result = None
           /\ hProcess = 0 /\ handleTarget = <<>>
           /\ ~HasOp("MsgWaitForMultipleObjects")

\* C6: execElevated with wait=True retrieves the exit code and returns only
\* once the child has signaled completion, whatever the message wait returns,
\* and it goes back to waiting after a wake for messages only when PeekMessageW
\* has found the queue empty.
C6_LeavesLoopOnlyWhenChildExited ==
  InEe =>
    /\ pc \in {"ee_exitcode", "ee_finally"} => childState = "exited"
    /\ (pc = "done" /\ wait /\ outcome = "return") => childState = "exited"
    /\ (pc = "ee_msgwait" /\ log[Len(log)].op = "PeekMessageW")
         => log[Len(log)].r = 0

\* C7: once forceTerminateProcess holds a handle to the live process it asks
\* for termination with exit code 1, waits with the 2000 ms timeout, returns
\* without raising, the process ends up not existing, and every call finishes.
C7_Safety ==
  FtObtained =>
    /\ pc \in {"ft_wait", "ft_finally", "done"} =>
         \E k \in LogIdx : /\ log[k].op = "TerminateProcess"
                           /\ log[k].a = h /\ log[k].x = 1
    /\ pc \in {"ft_finally", "done"} => \E k \in LogIdx : ForceWait(k) /\ log[k].a = h
    /\ \A k \in LogIdx : log[k].op = "waitForSingleObject" /\ log[k].a = h
                           => log[k].x = 2000
    /\ outcome # "raise"
    /\ pc = "done" => outcome = "return" /\ result = None

C7_ForceTerminates ==
  /\ [] C7_Safety
  /\ FtObtained ~> (processID \in PIDs /\ procState[processID] = "exited")
  /\ (pc = "ft_open") ~> (pc = "done")

C7_Witness ==
  /\ FtObtained /\ pc = "done"
  /\ procState[processID] = "exited" /\ procExit[processID] = 1
  /\ \E k \in LogIdx : ForceWait(k) /\ log[k].r = 258

\* e is n with each backslash doubled, stated position by position
BackslashesBefore(n, k) == Cardinality({j \in 1..(k - 1) : n[j] = BS})
IsEscaped(e, n) ==
  /\ Len(e) = Len(n) + BackslashesBefore(n, Len(n) + 1)
  /\ \A k \in 1..Len(n) :
       LET pos == k + BackslashesBefore(n, k) IN
       IF n[k] = BS THEN e[pos] = BS /\ e[pos + 1] = BS ELSE e[pos] = n[k]

\* C8: getRunningProcessInstances queries with every backslash of the name
\* doubled; it returns one ProcessId per reported row, in row order; zero rows
\* give an empty tuple and no error; a failed query raises to the caller.
C8_ProcessIdsInRowOrder ==
  InGp =>
    /\ wmiQuery # <<>> =>
         /\ Len(wmiQuery) >= 2
         /\ Head(wmiQuery) = QueryHead
         /\ wmiQuery[Len(wmiQuery)] = QueryTail
         /\ IsEscaped(SubSeq(wmiQuery, 2, Len(wmiQuery) - 1), name)
    /\ pc = "done" =>
         IF queryOk
           THEN /\ wmiQuery # <<>>
                /\ outcome = "return" /\ result = TupleResult(Len(rows))
                /\ Len(out) = Len(rows)
                /\ \A k \in 1..Len(rows) : out[k] = rows[k].ProcessId
           ELSE outcome = "raise" /\ exc.type = "COMError"

C8_Witness ==
  /\ InGp /\ pc = "done" /\ outcome = "return"
  /\ Len(out) = 2 /\ out[1] # out[2]
  /\ Len(name) = 3 /\ name[1] = BS /\ name[3] = BS

\* C9 (as stated): with no configPath in the argument context and no default
\* path, openUserConfigurationDirectory fails with ConfigurationError("no user
\* default config path"), without initialising the configuration subsystem or
\* opening anything; with a configPath present the configuration subsystem is
\* neither queried nor initialised and the shell opens exactly that path.
C9_AsStated ==
  (InOc /\ pc = "done") =>
    /\ (appArgsConfigPath = NoAttr /\ userDefaultConfigPath = "") =>
         /\ outcome = "raise"
         /\ exc = [type |-> "ConfigurationError", msg |-> "no user default config path"]
         /\ configInit = "" /\ shellOpened = <<>>
    /\ appArgsConfigPath # NoAttr =>
         /\ ~configQueried /\ configInit = ""
         /\ outcome = "return" /\ shellOpened = <<appArgsConfigPath>>

\* C9 (amended): as C9, with the error raised being ValueError("no user
\* default config path").
C9_RaisesValueError ==
  InOc =>
    /\ (pc = "done" /\ appArgsConfigPath = NoAttr /\ userDefaultConfigPath = "") =>
         /\ outcome = "raise"
         /\ exc = [type |-> "ValueError", msg |-> "no user default config path"]
         /\ configInit = "" /\ shellOpened = <<>>
    /\ (pc # "oc_getPath" /\ appArgsConfigPath # NoAttr) =>
         /\ ~configQueried /\ configInit = ""
         /\ pc = "done" => outcome = "return" /\ shellOpened = <<appArgsConfigPath>>

C9_Witness ==
  /\ InOc /\ pc = "done" /\ outcome = "raise"
  /\ appArgsConfigPath = NoAttr /\ configQueried

\* C10: terminateRunningNVDA posts the quit message to the window before it
\* opens the process, and when that open fails it returns at once without
\* raising: no wait, no close of a handle, no forceTerminateProcess.
C10_QuitPostedThenAbsentReturns ==
  InTn =>
    /\ \A k \in LogIdx : SyncOpen(k) =>
         \E j \in 1..(k - 1) : log[j].op = "PostMessage" /\ log[j].a = window
    /\ (\E k \in LogIdx : SyncOpen(k) /\ log[k].r = 0) =>
         /\ pc \in {"tn_check_h", "done"}
         /\ pc = "done" => outcome = "return" /\ result = None
         /\ ~HasOp("waitForSingleObject")
         /\ ~HasOp("CloseHandle")
         /\ ~HasOp("forceTerminateProcess")

C10_Witness ==
  /\ InTn /\ pc = "done" /\ h = 0
  /\ \E k \in LogIdx : SyncOpen(k) /\ log[k].r = 0
  /\ quitPosted = {WindowPid[window]}
====
